---- MODULE Spec2Model ----
(***************************************************************************)
(* A model of the JS8Call <-> LXMF bridge bot (lxmfy_js8call_bot/bot.py    *)
(* and storage/sqlite_storage.py).                                         *)
(*                                                                         *)
(* Python strings are sequences of one-character strings, so that split,   *)
(* strip, startswith and upper are computed as Python computes them.       *)
(* A dict is a function whose DOMAIN is the set of its keys; a defaultdict *)
(* creates an empty entry when a missing key is read with d[k].            *)
(***************************************************************************)
EXTENDS Integers, Sequences, FiniteSets, TLC

VARIABLES
    cfg,           \* config.ini values read by __init__ (raw text)
    js8groups,     \* self.js8groups  : list of ordinary group names
    js8urgent,     \* self.js8urgent  : list of urgent group names
    distro_list,   \* self.distro_list : set of user hashes
    user_groups,   \* self.user_groups : defaultdict(set)
    muted_users,   \* self.muted_users : defaultdict(set)
    kv_users,      \* what self.storage holds under the key "users"
    db_messages,   \* rows of the SQLite table "messages"
    last,          \* the operation performed last and what it emitted
    js8call_connected, \* self.js8call_connected
    peer,          \* whether JS8Call accepts connections at the moment
    messages,      \* process_js8call_messages: the lines of the last read
    handled,       \* what the for loop did with those it is done with
    forward,       \* the forward_* call in progress and how far it is
    futures,       \* _send_to_users: the futures of the sends submitted
    attempts,      \* how often self.send has been run for the call
    db_groups,     \* rows of the SQLite table "groups"
    db_urgent,     \* rows of the SQLite table "urgent"
    js8call_socket, \* self.js8call_socket: None, a socket, a closed socket
    db_conn,       \* SQLiteStorage.db_conn: open or closed
    db_lock,       \* SQLiteStorage.db_lock: free, or the thread holding it
    using,         \* the threads inside a call on db_conn
    disk,          \* whether the storage medium takes a write: ok or full
    calls,         \* per thread, the call on the registry it is inside
    run_pc,        \* how far run is
    thread_pool    \* self.thread_pool: running or shut down

\* the link thread js8call_loop runs on
link == <<js8call_connected, js8call_socket, peer, messages, handled>>

\* a forward_* call taken step by step, and the thread pool
pool == <<forward, futures, attempts>>

\* the tables of create_tables that no statement of the storage engine
\* or of the bot writes to
tables == <<db_groups, db_urgent>>

\* the connection of the storage engine and its mutex
engine == <<db_conn, db_lock, using>>

\* the main thread in run, and what its finally clause shuts down
runner == <<run_pc, thread_pool>>

\* the medium the storage backends write to
medium == <<disk>>

\* the handlers of the external runtime's dispatch loop and of its
\* threaded commands
handlers == <<calls>>

\* everything the command handlers never touch
threads == <<link, pool, tables, engine, runner, medium, handlers>>

vars == <<cfg, js8groups, js8urgent, distro_list, user_groups, muted_users,
          kv_users, db_messages, last, threads>>

registry == <<distro_list, user_groups, muted_users>>

(***************************************************************************)
(* Bounds of the model.                                                    *)
(***************************************************************************)
MaxArgs == 1        \* longest argument list of a command
MaxRecords == 1     \* rows the message table may hold before the radio stops
MaxLen == 4         \* longest RX.DIRECTED value of the classification runs
MaxBatch == 3       \* most lines one read of the socket returns
MaxRows == 51       \* most rows the database file of the log runs holds
MaxJoin == 2        \* longest list of groups of the join runs

Users == {"u1", "u2"}

(***************************************************************************)
(* Python str operations.                                                  *)
(***************************************************************************)
Whitespace == {" "}

UpperChar(c) ==
    CASE c = "a" -> "A"
      [] c = "b" -> "B"
      [] c = "l" -> "L"
      [] OTHER -> c

LowerChar(c) ==
    CASE c = "A" -> "a"
      [] c = "B" -> "b"
      [] c = "L" -> "l"
      [] OTHER -> c

upper(s) == [i \in 1..Len(s) |-> UpperChar(s[i])]

lower(s) == [i \in 1..Len(s) |-> LowerChar(s[i])]

RECURSIVE lstrip(_)
lstrip(s) ==
    IF s # <<>> /\ Head(s) \in Whitespace THEN lstrip(Tail(s)) ELSE s

RECURSIVE rstrip(_)
rstrip(s) ==
    IF s # <<>> /\ s[Len(s)] \in Whitespace
    THEN rstrip(SubSeq(s, 1, Len(s) - 1))
    ELSE s

strip(s) == rstrip(lstrip(s))

RECURSIVE SplitFrom(_, _, _)
SplitFrom(s, sep, cur) ==
    IF s = <<>> THEN <<cur>>
    ELSE IF Head(s) = sep
         THEN <<cur>> \o SplitFrom(Tail(s), sep, <<>>)
         ELSE SplitFrom(Tail(s), sep, Append(cur, Head(s)))

\* s.split(sep): always at least one part, "".split(",") == [""]
split(s, sep) == SplitFrom(s, sep, <<>>)

RECURSIVE join(_, _)
join(sep, parts) ==
    IF parts = <<>> THEN <<>>
    ELSE IF Len(parts) = 1 THEN parts[1]
    ELSE parts[1] \o <<sep>> \o join(sep, Tail(parts))

startswith(s, p) == Len(p) <= Len(s) /\ SubSeq(s, 1, Len(p)) = p

\* needle in haystack, for str
contains(hay, needle) ==
    \E i \in 0..(Len(hay) - Len(needle)) :
        SubSeq(hay, i + 1, i + Len(needle)) = needle

\* x in list
InList(x, l) == \E i \in DOMAIN l : l[i] = x

\* set(list)
set(l) == {l[i] : i \in DOMAIN l}

\* list(a_set): the elements in the set's iteration order, which is
\* arbitrary; every reader of these lists turns them back into sets.
RECURSIVE list(_)
list(S) ==
    IF S = {} THEN <<>>
    ELSE LET x == CHOOSE y \in S : TRUE IN <<x>> \o list(S \ {x})

(***************************************************************************)
(* dict and defaultdict(set).                                              *)
(***************************************************************************)
EmptyDict == [k \in {} |-> {}]

\* d.get(k, set())
DictGet(d, k) == IF k \in DOMAIN d THEN d[k] ELSE {}

\* the dict after reading d[k] on a defaultdict(set)
Vivify(d, k) ==
    IF k \in DOMAIN d THEN d
    ELSE [x \in DOMAIN d \cup {k} |-> IF x = k THEN {} ELSE d[x]]

RECURSIVE VivifyAll(_, _)
VivifyAll(d, ks) ==
    IF ks = {} THEN d
    ELSE LET k == CHOOSE x \in ks : TRUE
         IN VivifyAll(Vivify(d, k), ks \ {k})

\* d[k] = v
DictPut(d, k, v) ==
    [x \in DOMAIN d \cup {k} |-> IF x = k THEN v ELSE d[x]]

\* mutant: the entry is left in the dict
DictPop_Keeps(d, k) == d

\* d.pop(k, None)
DictPop(d, k) == [x \in DOMAIN d \ {k} |-> d[x]]

(***************************************************************************)
(* Configuration (config.ini) and what __init__ derives from it.           *)
(***************************************************************************)
\* group names used by the configurations and by the users' commands
gA == <<"A">>
gB == <<"B">>
gAB == <<"A", "B">>

\* bot.store_users_in_db selects SQLiteStorage as self.storage
UsersInDb(c) == c.store_users_in_db \in {"yes", "true", "1"}

\* [group.strip() for group in raw.split(",")]
CatalogOf(raw) ==
    LET parts == split(raw, ",")
    IN [i \in DOMAIN parts |-> strip(parts[i])]

\* [g.strip() for g in raw.split(",") if g.strip()]
DefaultGroupsOf(raw) ==
    LET NonEmpty(g) == g # <<>>
    IN SelectSeq(CatalogOf(raw), NonEmpty)

default_groups == DefaultGroupsOf(cfg.default_groups)

\* self.blocked_words, assigned once by __init__
blocked_words == <<>>

\* set(self.js8groups + self.js8urgent)
available_groups == set(js8groups \o js8urgent)

\* mutant: every name passes
InCatalog_Any(g) == TRUE

\* mutant: the urgent catalog is not consulted
InCatalog_OrdinaryOnly(g) == InList(g, js8groups)

InCatalog(g) == InList(g, js8groups) \/ InList(g, js8urgent)

(***************************************************************************)
(* What an operation leaves behind: the reply sent to the requesting user, *)
(* the frame handled and the forwards it caused.                           *)
(***************************************************************************)
NoReply == [text |-> "", names |-> <<>>]

Reply(text, names) == [text |-> text, names |-> names]

NoFrame == [type |-> "", value |-> <<>>]

Done(op, user, args, reply, mutated) ==
    [op |-> op, user |-> user, args |-> args, reply |-> reply,
     mutated |-> mutated, data |-> NoFrame, fwd |-> <<>>]

(***************************************************************************)
(* The storage engine behind self.storage, key "users".                    *)
(***************************************************************************)
NoValue == [pytype |-> "none", repr |-> EmptyDict]

\* SQLiteStorage.set writes str(value): the row holds text
SQLiteSet(value) == [pytype |-> "str", repr |-> value]

\* the runtime's default JSON storage writes the value as JSON and reads
\* it back as the dict it was
JSONSet(value) == [pytype |-> "dict", repr |-> value]

storage_set(value) ==
    IF UsersInDb(cfg) THEN SQLiteSet(value) ELSE JSONSet(value)

\* self.storage.get("users", default): the stored value, or the default
storage_get(default) ==
    IF kv_users.pytype = "none" THEN default ELSE kv_users

\* bool(x) of a dict or a str; str(a_dict) is never the empty text
Truthy(v) ==
    IF v.pytype = "dict" THEN DOMAIN v.repr # {} ELSE v.pytype = "str"

\* mutant: the muted groups are not written
UsersData_NoMuted(dl, ug, mu) ==
    [u \in dl |-> [groups |-> list(DictGet(ug, u)), muted_groups |-> <<>>]]

\* the users_data dict built by save_state_to_storage
UsersData(dl, ug, mu) ==
    [u \in dl |-> [groups |-> list(DictGet(ug, u)),
                   muted_groups |-> list(DictGet(mu, u))]]

\* self.storage.set raises: the medium does not take the write
WriteFails == disk = "full"

\* save_state_to_storage on the registry <<dl, ug, mu>>: reading
\* self.user_groups[user] creates missing entries of listed users; an
\* exception of self.storage.set is logged by the except clause
save_state_to_storage(dl, ug, mu) ==
    /\ user_groups' = VivifyAll(ug, dl)
    /\ muted_users' = VivifyAll(mu, dl)
    /\ kv_users' = IF WriteFails THEN kv_users
                   ELSE storage_set(UsersData(dl, ug, mu))

\* load_state_from_storage on a registry just emptied by setup_state:
\* users_data.items() raises on a str, the except clause logs it
LoadedRegistry ==
    LET users_data == storage_get(JSONSet(EmptyDict))
    IN IF Truthy(users_data) /\ users_data.pytype = "dict"
       THEN [distro |-> DOMAIN users_data.repr,
             groups |-> [u \in DOMAIN users_data.repr |->
                            set(users_data.repr[u].groups)],
             muted |-> [u \in DOMAIN users_data.repr |->
                            set(users_data.repr[u].muted_groups)]]
       ELSE [distro |-> {}, groups |-> EmptyDict, muted |-> EmptyDict]

(***************************************************************************)
(* Construction.                                                           *)
(***************************************************************************)
Config(groups, urgent, defaults, indb) ==
    [js8groups |-> groups, js8urgent |-> urgent,
     default_groups |-> defaults, store_users_in_db |-> indb,
     blocked_words |-> <<>>]

\* the same configuration with a list of blocked words in it
Blocking(c, words) == [c EXCEPT !.blocked_words = words]

\* the configurations of the full model: one ordinary group, the urgent
\* catalog left unconfigured, with and without default groups, on either
\* storage
Configs ==
    { Config(<<"A">>, <<>>, <<>>, "no"),
      Config(<<" ", "A">>, <<>>, <<" ", "A", ",">>, "yes") }

\* __init__ leaves the link down; run has not started the link thread's
\* first read
InitLink ==
    /\ js8call_connected = FALSE
    /\ js8call_socket = "none"
    /\ peer = "accepting"
    /\ messages = <<>>
    /\ handled = <<>>

\* no forward_* call yet, self.send not run for anybody
NoForward ==
    [kind |-> "", sender |-> <<>>, group |-> <<>>, message |-> <<>>]

\* a forward_* call, how far it is, and how far run was when it was made
Call(pc, f, during) == [pc |-> pc, f |-> f, during |-> during]

InitPool ==
    /\ forward = Call("idle", NoForward, "")
    /\ futures = <<>>
    /\ attempts = [u \in Users |-> 0]

\* CREATE TABLE IF NOT EXISTS on a new database file
InitTables ==
    /\ db_groups = <<>>
    /\ db_urgent = <<>>

\* run has started the link thread, which has connected and is between
\* two reads
InitLinkUp ==
    /\ js8call_connected = TRUE
    /\ js8call_socket = "open"
    /\ peer = "accepting"
    /\ messages = <<>>
    /\ handled = <<>>

\* setup_database has connected; nobody holds the mutex
InitEngine ==
    /\ db_conn = "open"
    /\ db_lock = "free"
    /\ using = {}

\* run is in super().run(), the loop of the runtime
InitRunner ==
    /\ run_pc = "running"
    /\ thread_pool = "running"

\* the medium takes writes
InitMedium == disk = "ok"

\* a handler thread that runs no command
Idle == [pc |-> "idle"]

\* the threads that read or write the registry: the runtime's dispatch
\* loop, a thread of a threaded command, the link thread
RegistryThreads == {"dispatch", "threaded", "link"}

\* no command is being handled
InitHandlers == calls = [t \in RegistryThreads |-> Idle]

InitThreads ==
    /\ InitLinkUp /\ InitPool /\ InitTables /\ InitEngine /\ InitRunner
    /\ InitMedium /\ InitHandlers

InitWith(configs) ==
    /\ InitThreads
    /\ cfg \in configs
    /\ js8groups = CatalogOf(cfg.js8groups)
    /\ js8urgent = CatalogOf(cfg.js8urgent)
    /\ distro_list = {}
    /\ user_groups = EmptyDict
    /\ muted_users = EmptyDict
    /\ kv_users = NoValue
    /\ db_messages = <<>>
    /\ last = Done("load", "", <<>>, NoReply, FALSE)

Init == InitWith(Configs)

\* the process is started again on the same storage: setup_state
Restart ==
    /\ distro_list' = LoadedRegistry.distro
    /\ user_groups' = LoadedRegistry.groups
    /\ muted_users' = LoadedRegistry.muted
    /\ last' = Done("load", "", <<>>, NoReply, FALSE)
    /\ UNCHANGED <<threads, cfg, js8groups, js8urgent, kv_users, db_messages>>

(***************************************************************************)
(* Registry commands.                                                      *)
(***************************************************************************)
\* mutant: the membership test is missing
NotListed_Always(user) == TRUE

\* if user not in self.distro_list
NotListed(user) == user \notin distro_list

add_to_distro_list(user) ==
    /\ IF NotListed(user)
       THEN /\ distro_list' = distro_list \cup {user}
            /\ save_state_to_storage(
                   distro_list',
                   IF default_groups = <<>> THEN user_groups
                   ELSE DictPut(user_groups, user,
                                DictGet(user_groups, user)
                                    \cup set(default_groups)),
                   muted_users)
            /\ last' = Done("add", user, <<>>,
                   Reply("You have been added to the JS8Call message group",
                         default_groups), TRUE)
       ELSE /\ last' = Done("add", user, <<>>,
                   Reply("You are already in the JS8Call message group.",
                         <<>>), FALSE)
            /\ UNCHANGED <<distro_list, user_groups, muted_users, kv_users>>
    /\ UNCHANGED <<threads, cfg, js8groups, js8urgent, db_messages>>

remove_from_distro_list(user) ==
    /\ IF user \in distro_list
       THEN /\ distro_list' = distro_list \ {user}
            /\ save_state_to_storage(distro_list',
                                     DictPop(user_groups, user),
                                     DictPop(muted_users, user))
            /\ last' = Done("remove", user, <<>>,
                   Reply("You have been removed from the JS8Call message group and all groups.",
                         <<>>), TRUE)
       ELSE /\ last' = Done("remove", user, <<>>,
                   Reply("You are not in the JS8Call message group.", <<>>),
                   FALSE)
            /\ UNCHANGED <<distro_list, user_groups, muted_users, kv_users>>
    /\ UNCHANGED <<threads, cfg, js8groups, js8urgent, db_messages>>

add_user_to_groups(user, groups) ==
    /\ IF user \in distro_list
       THEN LET valid == {g \in set(groups) : InCatalog(g)}
            IN /\ save_state_to_storage(
                      distro_list,
                      IF valid = {} THEN user_groups
                      ELSE DictPut(user_groups, user,
                                   DictGet(user_groups, user) \cup valid),
                      muted_users)
               /\ last' = Done("join", user, groups,
                      Reply("You have been added to the following groups",
                            groups), TRUE)
       ELSE /\ last' = Done("join", user, groups,
                   Reply("You need to join the JS8Call message group first. Use /add command.",
                         <<>>), FALSE)
            /\ UNCHANGED <<user_groups, muted_users, kv_users>>
    /\ UNCHANGED <<threads, cfg, js8groups, js8urgent, distro_list, db_messages>>

\* mutant: the operands of the test are swapped, the entry is always read
LeaveLookup_Always(user) == Vivify(user_groups, user)

\* self.user_groups after the test "user in self.distro_list and group in
\* self.user_groups[user]": the right operand runs for listed users only
LeaveLookup(user) ==
    IF user \in distro_list THEN Vivify(user_groups, user) ELSE user_groups

\* mutant: leaving a group also takes it out of the muted groups
remove_user_from_group_Unmutes(user, group) ==
    /\ IF user \in distro_list /\ group \in DictGet(user_groups, user)
       THEN /\ save_state_to_storage(
                   distro_list,
                   DictPut(user_groups, user, user_groups[user] \ {group}),
                   DictPut(muted_users, user,
                           DictGet(muted_users, user) \ {group}))
            /\ last' = Done("leave", user, <<group>>,
                   Reply("You have been removed from the group", <<group>>),
                   TRUE)
       ELSE /\ user_groups' = LeaveLookup(user)
            /\ last' = Done("leave", user, <<group>>,
                   Reply("You are not in the group", <<group>>), FALSE)
            /\ UNCHANGED <<muted_users, kv_users>>
    /\ UNCHANGED <<threads, cfg, js8groups, js8urgent, distro_list, db_messages>>

remove_user_from_group(user, group) ==
    /\ IF user \in distro_list /\ group \in DictGet(user_groups, user)
       THEN /\ save_state_to_storage(
                   distro_list,
                   DictPut(user_groups, user, user_groups[user] \ {group}),
                   muted_users)
            /\ last' = Done("leave", user, <<group>>,
                   Reply("You have been removed from the group", <<group>>),
                   TRUE)
       ELSE /\ user_groups' = LeaveLookup(user)
            /\ last' = Done("leave", user, <<group>>,
                   Reply("You are not in the group", <<group>>), FALSE)
            /\ UNCHANGED <<muted_users, kv_users>>
    /\ UNCHANGED <<threads, cfg, js8groups, js8urgent, distro_list, db_messages>>

\* mutant: the sentinel is compared without upper()
HasAll_CaseSensitive(groups) ==
    \E i \in DOMAIN groups : groups[i] = <<"A", "L", "L">>

\* "ALL" in [g.upper() for g in groups]
HasAll(groups) == \E i \in DOMAIN groups : upper(groups[i]) = <<"A", "L", "L">>

mute_user_groups(user, groups) ==
    /\ IF user \in distro_list
       THEN IF HasAll(groups)
            THEN /\ save_state_to_storage(
                        distro_list, user_groups,
                        DictPut(muted_users, user,
                                DictGet(muted_users, user)
                                    \cup available_groups))
                 /\ last' = Done("mute", user, groups,
                        Reply("You have muted all available groups.", <<>>),
                        TRUE)
            ELSE LET muted == SelectSeq(groups, InCatalog)
                 IN /\ save_state_to_storage(
                           distro_list, user_groups,
                           IF muted = <<>> THEN muted_users
                           ELSE DictPut(muted_users, user,
                                        DictGet(muted_users, user)
                                            \cup set(muted)))
                    /\ last' = Done("mute", user, groups,
                           IF muted # <<>>
                           THEN Reply("You have muted the following groups",
                                      muted)
                           ELSE Reply("No valid groups to mute.", <<>>),
                           TRUE)
       ELSE /\ last' = Done("mute", user, groups,
                   Reply("You need to join the JS8Call message group first. Use /add command.",
                         <<>>), FALSE)
            /\ UNCHANGED <<user_groups, muted_users, kv_users>>
    /\ UNCHANGED <<threads, cfg, js8groups, js8urgent, distro_list, db_messages>>

\* the groups the unmute loop removes from the muted set m, in order
RECURSIVE UnmutedList(_, _)
UnmutedList(groups, m) ==
    IF groups = <<>> THEN <<>>
    ELSE IF Head(groups) \in m
         THEN <<Head(groups)>> \o UnmutedList(Tail(groups), m \ {Head(groups)})
         ELSE UnmutedList(Tail(groups), m)

unmute_user_groups(user, groups) ==
    /\ IF user \in distro_list
       THEN IF HasAll(groups)
            THEN /\ save_state_to_storage(
                        distro_list, user_groups,
                        DictPut(muted_users, user, {}))
                 /\ last' = Done("unmute", user, groups,
                        Reply("You have unmuted all groups.", <<>>), TRUE)
            ELSE LET unmuted == UnmutedList(groups,
                                            DictGet(muted_users, user))
                 IN /\ save_state_to_storage(
                           distro_list, user_groups,
                           DictPut(muted_users, user,
                                   DictGet(muted_users, user) \ set(unmuted)))
                    /\ last' = Done("unmute", user, groups,
                           IF unmuted # <<>>
                           THEN Reply("You have unmuted the following groups",
                                      unmuted)
                           ELSE Reply("No valid groups to unmute or they were not muted.",
                                      <<>>),
                           TRUE)
       ELSE /\ last' = Done("unmute", user, groups,
                   Reply("You need to join the JS8Call message group first. Use /add command.",
                         <<>>), FALSE)
            /\ UNCHANGED <<user_groups, muted_users, kv_users>>
    /\ UNCHANGED <<threads, cfg, js8groups, js8urgent, distro_list, db_messages>>

\* show_groups: one line per available group, read with dict.get
show_groups(user) ==
    LET groups == list(available_groups)
        ug == DictGet(user_groups, user)
        mg == DictGet(muted_users, user)
    IN [i \in DOMAIN groups |->
           [group |-> groups[i],
            status |-> IF groups[i] \in ug THEN "[Subscribed]"
                       ELSE "[Not subscribed]",
            muted |-> groups[i] \in mg]]

\* the groups command replies show_groups(ctx.sender)
groups_command(user) ==
    /\ last' = Done("groups", user, <<>>, Reply("Available groups:", <<>>), FALSE)
    /\ UNCHANGED <<threads, cfg, js8groups, js8urgent, distro_list, user_groups,
                   muted_users, kv_users, db_messages>>

(***************************************************************************)
(* The radio side: one decoded frame, its classification and the fan-out.  *)
(***************************************************************************)
\* value.split(":") with at least two parts gives sender and content
DirectedParts(value) == split(value, ":")

SenderOf(value) == strip(DirectedParts(value)[1])

ContentOf(value) == strip(join(":", Tail(DirectedParts(value))))

\* any(word.lower() in content.lower() for word in self.blocked_words)
Blocked(content) ==
    \E i \in DOMAIN blocked_words :
        contains(lower(content), lower(blocked_words[i]))

\* mutant: the loop has no break, every matching name is forwarded to
RECURSIVE ForwardFirst_NoBreak(_, _, _, _)
ForwardFirst_NoBreak(kind, sender, content, catalog) ==
    IF catalog = <<>> THEN <<>>
    ELSE (IF startswith(content, Head(catalog))
          THEN <<[kind |-> kind, sender |-> sender, group |-> Head(catalog),
                  message |-> strip(SubSeq(content, Len(Head(catalog)) + 1,
                                           Len(content)))]>>
          ELSE <<>>)
         \o ForwardFirst_NoBreak(kind, sender, content, Tail(catalog))

\* for group in catalog: if content.startswith(group): forward; break
RECURSIVE ForwardFirst(_, _, _, _)
ForwardFirst(kind, sender, content, catalog) ==
    IF catalog = <<>> THEN <<>>
    ELSE IF startswith(content, Head(catalog))
         THEN <<[kind |-> kind, sender |-> sender, group |-> Head(catalog),
                 message |-> strip(SubSeq(content, Len(Head(catalog)) + 1,
                                          Len(content)))]>>
         ELSE ForwardFirst(kind, sender, content, Tail(catalog))

\* any(content.startswith(group) for group in catalog)
AnyPrefix(content, catalog) ==
    \E i \in DOMAIN catalog : startswith(content, catalog[i])

\* mutant: the number of parts is not checked, a value without ":" is
\* forwarded with what there is
Forwards_NoPartsCheck(data) ==
    IF data.type # "RX.DIRECTED" THEN <<>>
    ELSE LET sender == SenderOf(data.value)
             content == ContentOf(data.value)
         IN IF Blocked(content) THEN <<>>
            ELSE IF AnyPrefix(content, js8groups)
                 THEN ForwardFirst("group", sender, content, js8groups)
            ELSE IF AnyPrefix(content, js8urgent)
                 THEN ForwardFirst("urgent", sender, content, js8urgent)
            ELSE <<[kind |-> "direct", sender |-> sender, group |-> <<>>,
                    message |-> content]>>

\* the forward_* calls handle_js8call_message makes for a frame, in order
Forwards(data) ==
    IF data.type # "RX.DIRECTED" THEN <<>>
    ELSE IF Len(DirectedParts(data.value)) < 2 THEN <<>>
    ELSE LET sender == SenderOf(data.value)
             content == ContentOf(data.value)
         IN IF Blocked(content) THEN <<>>
            ELSE IF AnyPrefix(content, js8groups)
                 THEN ForwardFirst("group", sender, content, js8groups)
            ELSE IF AnyPrefix(content, js8urgent)
                 THEN ForwardFirst("urgent", sender, content, js8urgent)
            ELSE <<[kind |-> "direct", sender |-> sender, group |-> <<>>,
                    message |-> content]>>

\* mutant: the muted set is not consulted
Eligible_IgnoresMute(f, user) ==
    \/ f.kind = "direct"
    \/ f.group \in DictGet(user_groups, user)

\* mutant: a direct forward skips users who muted something
Eligible_DirectUnlessMuted(f, user) ==
    \/ f.kind = "direct" /\ DictGet(muted_users, user) = {}
    \/ /\ f.kind # "direct"
       /\ f.group \in DictGet(user_groups, user)
       /\ f.group \notin DictGet(muted_users, user)

\* the condition of the comprehension in _send_to_users; a direct
\* forward passes group=None
Eligible(f, user) ==
    \/ f.kind = "direct"
    \/ /\ f.group \in DictGet(user_groups, user)
       /\ f.group \notin DictGet(muted_users, user)

\* the users _send_to_users submits a send for
Recipients(f) == {user \in distro_list : Eligible(f, user)}

\* the row forward_* hands to self.db.insert_message
DIRECT == <<"D", "I", "R", "E", "C", "T">>

RowOf(f) ==
    [sender |-> f.sender,
     receiver |-> IF f.kind = "direct" THEN DIRECT ELSE f.group,
     message |-> f.message]

handle_js8call_message(data) ==
    LET fwds == Forwards(data)
        targeted == {i \in DOMAIN fwds : fwds[i].kind # "direct"}
    IN /\ last' = [op |-> "frame", user |-> "", args |-> <<>>,
                   reply |-> NoReply, mutated |-> FALSE, data |-> data,
                   fwd |-> [i \in DOMAIN fwds |->
                               [kind |-> fwds[i].kind,
                                sender |-> fwds[i].sender,
                                group |-> fwds[i].group,
                                message |-> fwds[i].message,
                                sent |-> Recipients(fwds[i])]]]
       \* the comprehension reads user_groups[user] and, if the group is
       \* there, muted_users[user] of every listed user
       /\ user_groups' = IF targeted = {} THEN user_groups
                         ELSE VivifyAll(user_groups, distro_list)
       /\ muted_users' =
              VivifyAll(muted_users,
                        {user \in distro_list :
                            \E i \in targeted :
                                fwds[i].group \in DictGet(user_groups, user)})
       /\ db_messages' = db_messages \o [i \in DOMAIN fwds |-> RowOf(fwds[i])]
       /\ UNCHANGED <<cfg, js8groups, js8urgent, distro_list, kv_users>>

\* the link thread handles one frame out of those the peer may send
ReceiveFrame(frames) ==
    /\ Len(db_messages) < MaxRecords
    /\ \E data \in frames : handle_js8call_message(data)
    /\ UNCHANGED threads

Directed(value) == [type |-> "RX.DIRECTED", value |-> value]

\* the frames of the full model
SampleFrames ==
    { Directed(<<"N", ":", "A", " ", "x">>),
      Directed(<<"N", "x">>),
      [type |-> "RX.ACTIVITY", value |-> <<"N", ":", "x">>] }

\* the frames of the fan-out runs
FanoutFrames ==
    SampleFrames \cup {Directed(<<"N", ":", "B">>), Directed(<<"N", ":", "x">>)}

\* the frames of the classification runs: every value up to MaxLen
Alphabet == {"A", "B", " ", ":"}

AllFrames ==
    {Directed(v) : v \in UNION {[1..n -> Alphabet] : n \in 0..MaxLen}}

RadioConfigs ==
    { Config(g, u, <<>>, "no") :
        g \in { <<>>, <<"A">>, <<"A", ",", "A", "B">>,
                <<"A", "B", ",", "A">>, <<"B", ",">> },
        u \in { <<>>, <<"B">>, <<"A">>,
                <<" ", "B", " ", ",", "A", "B">> } }

(***************************************************************************)
(* The arguments users type.                                               *)
(***************************************************************************)
ArgNames == {gA, gB, <<"a", "l", "L">>}

ArgLists == UNION {[1..n -> ArgNames] : n \in 1..MaxArgs}

Next ==
    \/ \E user \in Users : add_to_distro_list(user)
    \/ \E user \in Users : remove_from_distro_list(user)
    \/ \E user \in Users, groups \in ArgLists : add_user_to_groups(user, groups)
    \/ \E user \in Users, group \in ArgNames : remove_user_from_group(user, group)
    \/ \E user \in Users, groups \in ArgLists : mute_user_groups(user, groups)
    \/ \E user \in Users, groups \in ArgLists : unmute_user_groups(user, groups)
    \/ \E user \in Users : groups_command(user)
    \/ ReceiveFrame(SampleFrames)
    \/ Restart

Spec == Init /\ [][Next]_vars

\* the bot started on a storage that holds a registry saved earlier, and
\* its link thread: every registry over the two catalogs
FanoutConfig == Config(<<"A">>, <<"B">>, <<>>, "no")

StoredLists == {list(S) : S \in SUBSET {gA, gB}}

StoredUsers ==
    UNION { [dl -> [groups : StoredLists, muted_groups : StoredLists]] :
              dl \in SUBSET Users }

InitFanout ==
    /\ InitThreads
    /\ cfg = FanoutConfig
    /\ js8groups = CatalogOf(cfg.js8groups)
    /\ js8urgent = CatalogOf(cfg.js8urgent)
    /\ kv_users \in {JSONSet(d) : d \in StoredUsers}
    /\ distro_list = LoadedRegistry.distro
    /\ user_groups = LoadedRegistry.groups
    /\ muted_users = LoadedRegistry.muted
    /\ db_messages = <<>>
    /\ last = Done("load", "", <<>>, NoReply, FALSE)

NextFanout == ReceiveFrame(FanoutFrames)

SpecFanout == InitFanout /\ [][NextFanout]_vars

\* the link thread alone: a line has just been read from the socket of a
\* bot constructed on an empty storage, and is handled
InitRead(configs) ==
    /\ InitThreads
    /\ cfg \in configs
    /\ js8groups = CatalogOf(cfg.js8groups)
    /\ js8urgent = CatalogOf(cfg.js8urgent)
    /\ distro_list = {}
    /\ user_groups = EmptyDict
    /\ muted_users = EmptyDict
    /\ kv_users = NoValue
    /\ db_messages = <<>>
    /\ \E data \in AllFrames :
           last = [op |-> "read", user |-> "", args |-> <<>>,
                   reply |-> NoReply, mutated |-> FALSE, data |-> data,
                   fwd |-> <<>>]

InitRadio == InitRead(RadioConfigs)

HandleRead ==
    /\ last.op = "read"
    /\ handle_js8call_message(last.data)
    /\ UNCHANGED threads

NextRadio == HandleRead

SpecRadio == InitRadio /\ [][NextRadio]_vars

\* the same on configurations that name blocked words
BlockingConfigs ==
    { Blocking(Config(<<"A">>, <<"A", "B">>, <<>>, "no"), words) :
        words \in { <<<<"b">>>>, <<<<"B">>>>, <<<<"a", "b">>, <<"b", "b">>>> } }

InitBlocking == InitRead(BlockingConfigs)

SpecBlocking == InitBlocking /\ [][NextRadio]_vars

(***************************************************************************)
(* The link thread: js8call_loop, connect_js8call and                      *)
(* process_js8call_messages.                                               *)
(***************************************************************************)
\* the process has not exited: its threads run
Alive == run_pc # "returned"

\* a line of the data read, by what json.loads makes of it: "" for the
\* empty line, "invalid" for text that does not decode, otherwise the type
\* of the decoded value, with the keys of an object and the type of its
\* "value"
Line(json, keys, valuetype, data) ==
    [json |-> json, keys |-> keys, valuetype |-> valuetype, data |-> data]

FrameLine(data) == Line("dict", {"type", "value"}, "str", data)

\* the exception the body of the for loop raises on a line, "" for none
Raised(line) ==
    IF line.json = "" THEN ""
    ELSE IF line.json = "invalid" THEN "JSONDecodeError"
    ELSE IF line.json # "dict" THEN "TypeError"
    ELSE IF "type" \notin line.keys THEN "KeyError"
    ELSE IF line.data.type # "RX.DIRECTED" THEN ""
    ELSE IF "value" \notin line.keys THEN "KeyError"
    ELSE IF line.valuetype # "str" THEN "AttributeError"
    ELSE ""

\* handle_js8call_message gets as far as looking at the type and value
IsFrame(line) ==
    /\ line.json = "dict"
    /\ Raised(line) = ""

\* except (KeyError, ValueError) in handle_js8call_message
CaughtByHandler == {"KeyError", "ValueError"}

\* except json.JSONDecodeError inside the for loop
CaughtByLoop == {"JSONDecodeError"}

\* the exception reaches the outer except Exception
Escapes(exc) == exc \notin ({""} \cup CaughtByHandler \cup CaughtByLoop)

\* mutant: a failed connect is not tried again
connect_js8call_NoRetry ==
    /\ Alive
    /\ ~js8call_connected
    /\ messages = <<>>
    /\ last.op # "connect failed"
    /\ js8call_connected' = (peer = "accepting")
    /\ js8call_socket' = IF peer = "accepting" THEN "open" ELSE "none"
    /\ last' = Done(IF peer = "accepting" THEN "connected"
                    ELSE "connect failed", "", <<>>, NoReply, FALSE)
    /\ UNCHANGED <<peer, messages, handled>>
    /\ UNCHANGED <<pool, tables, medium, handlers, engine, runner, cfg,
                   js8groups, js8urgent, distro_list, user_groups,
                   muted_users, kv_users, db_messages>>

\* connect_js8call, called by js8call_loop while the link is down
connect_js8call ==
    /\ Alive
    /\ ~js8call_connected
    /\ messages = <<>>
    /\ js8call_connected' = (peer = "accepting")
    /\ js8call_socket' = IF peer = "accepting" THEN "open" ELSE "none"
    /\ last' = Done(IF peer = "accepting" THEN "connected"
                    ELSE "connect failed", "", <<>>, NoReply, FALSE)
    /\ UNCHANGED <<peer, messages, handled>>
    /\ UNCHANGED <<pool, tables, medium, handlers, engine, runner, cfg,
                   js8groups, js8urgent, distro_list, user_groups,
                   muted_users, kv_users, db_messages>>

\* JS8Call starts or stops accepting connections
PeerChanges ==
    /\ peer' = IF peer = "accepting" THEN "refusing" ELSE "accepting"
    /\ UNCHANGED <<js8call_connected, js8call_socket, messages, handled>>
    /\ UNCHANGED <<pool, tables, medium, handlers, engine, runner, cfg,
                   js8groups, js8urgent, distro_list, user_groups,
                   muted_users, kv_users, db_messages, last>>

\* the for loop of process_js8call_messages has lines left: an exception
\* that ends it early also takes the link down
InLoop == js8call_connected /\ Len(handled) < Len(messages)

\* process_js8call_messages up to the for loop: recv returns nothing (the
\* peer closed), raises, or returns data that splits into the lines batch
recv_closed ==
    /\ js8call_connected' = FALSE
    /\ messages' = <<>>
    /\ handled' = <<>>
    /\ UNCHANGED <<js8call_socket, peer>>
    /\ UNCHANGED <<pool, tables, medium, handlers, engine, runner, cfg,
                   js8groups, js8urgent, distro_list, user_groups,
                   muted_users, kv_users, db_messages>>

recv_data(batch) ==
    /\ messages' = batch
    /\ handled' = <<>>
    /\ last' = Done("recv", "", <<>>, NoReply, FALSE)
    /\ UNCHANGED <<js8call_connected, js8call_socket, peer>>
    /\ UNCHANGED <<pool, tables, medium, handlers, engine, runner, cfg,
                   js8groups, js8urgent, distro_list, user_groups,
                   muted_users, kv_users, db_messages>>

recv(batches) ==
    /\ Alive
    /\ js8call_connected
    /\ messages = <<>>
    /\ \/ /\ js8call_socket = "open"
          /\ recv_closed
          /\ last' = Done("recv empty", "", <<>>, NoReply, FALSE)
       \/ recv_closed /\ last' = Done("recv error", "", <<>>, NoReply, FALSE)
       \/ /\ js8call_socket = "open"
          /\ Len(db_messages) < MaxRecords
          /\ \E batch \in batches : recv_data(batch)

\* one turn of the for loop of process_js8call_messages
process_line ==
    /\ Alive
    /\ InLoop
    /\ LET line == messages[Len(handled) + 1]
           exc == Raised(line)
       IN /\ IF IsFrame(line)
             THEN handle_js8call_message(line.data)
             ELSE /\ last' = Done("line", "", <<>>, NoReply, FALSE)
                  /\ UNCHANGED <<cfg, js8groups, js8urgent, distro_list,
                                 user_groups, muted_users, kv_users,
                                 db_messages>>
          /\ handled' =
                 Append(handled,
                        [line |-> line, raised |-> exc, fwd |-> last'.fwd,
                         stored |-> SubSeq(db_messages', Len(db_messages) + 1,
                                           Len(db_messages'))])
          /\ js8call_connected' = ~Escapes(exc)
          /\ UNCHANGED <<js8call_socket, peer, messages, pool, tables, medium,
                         handlers, engine, runner>>

\* the for loop over the lines of the last read has ended
LoopOver == messages # <<>> /\ ~InLoop

\* process_js8call_messages has returned, its locals are gone, and
\* js8call_loop sleeps its second
sleep ==
    /\ Alive
    /\ LoopOver
    /\ messages' = <<>>
    /\ handled' = <<>>
    /\ last' = Done("sleep", "", <<>>, NoReply, FALSE)
    /\ UNCHANGED <<js8call_connected, js8call_socket, peer>>
    /\ UNCHANGED <<pool, tables, medium, handlers, engine, runner, cfg,
                   js8groups, js8urgent, distro_list, user_groups,
                   muted_users, kv_users, db_messages>>

\* one turn of the while loop of js8call_loop
js8call_loop(batches) ==
    \/ connect_js8call
    \/ recv(batches)
    \/ process_line
    \/ sleep

\* the lines of the link runs
LinkLines ==
    { FrameLine(Directed(<<"N", ":", "A", " ", "x">>)),
      FrameLine(Directed(<<"M", ":", "x">>)),
      FrameLine(Directed(<<"N", "x">>)),
      FrameLine([type |-> "RX.ACTIVITY", value |-> <<"N", ":", "x">>]),
      Line("", {}, "", NoFrame),
      Line("invalid", {}, "", NoFrame),
      Line("list", {}, "", NoFrame),
      Line("dict", {"value"}, "str", NoFrame),
      Line("dict", {"type", "value"}, "int", Directed(<<>>)) }

\* data.strip().split("\n"): at least one line, and of several the first
\* and the last are not empty
Batches(lines) ==
    { b \in UNION {[1..n -> lines] : n \in 1..MaxBatch} :
        Len(b) > 1 => b[1].json # "" /\ b[Len(b)].json # "" }

\* the link thread of a bot started on a stored registry
LinkUsers ==
    [u \in Users |->
        IF u = "u1" THEN [groups |-> <<gA>>, muted_groups |-> <<>>]
        ELSE [groups |-> <<gA, gB>>, muted_groups |-> <<gA>>]]

InitLinkRun ==
    /\ InitLink
    /\ InitPool
    /\ InitTables
    /\ InitEngine
    /\ InitRunner
    /\ InitMedium
    /\ InitHandlers
    /\ cfg = FanoutConfig
    /\ js8groups = CatalogOf(cfg.js8groups)
    /\ js8urgent = CatalogOf(cfg.js8urgent)
    /\ kv_users = JSONSet(LinkUsers)
    /\ distro_list = LoadedRegistry.distro
    /\ user_groups = LoadedRegistry.groups
    /\ muted_users = LoadedRegistry.muted
    /\ db_messages = <<>>
    /\ last = Done("load", "", <<>>, NoReply, FALSE)

NextLink ==
    \/ js8call_loop(Batches(LinkLines))
    \/ PeerChanges

SpecLink == InitLinkRun /\ [][NextLink]_vars

\* the link thread is a thread of its own that sleeps a second between
\* turns: the sleep ends, and while the link is down its turn, a connect,
\* does come
SpecLinkFair == SpecLink /\ WF_vars(sleep) /\ WF_vars(connect_js8call)

(***************************************************************************)
(* A forward_* call step by step: _send_to_users submits the sends to the  *)
(* thread pool and waits for them, then the row is inserted.               *)
(***************************************************************************)
\* what __init__ sets up and nothing changes afterwards
settings == <<cfg, js8groups, js8urgent>>

\* the list comprehension of _send_to_users: one submit for every user
\* that passes its condition; submit raises once the pool is shut down
submit ==
    /\ Alive
    /\ forward.pc = "called"
    /\ IF thread_pool = "shutdown" /\ Recipients(forward.f) # {}
       THEN /\ forward' = [forward EXCEPT !.pc = "RuntimeError"]
            /\ UNCHANGED futures
       ELSE /\ forward' = [forward EXCEPT !.pc = "wait"]
            /\ futures' = [user \in Recipients(forward.f) |-> "PENDING"]
    /\ user_groups' = IF forward.f.kind = "direct" THEN user_groups
                      ELSE VivifyAll(user_groups, distro_list)
    /\ muted_users' =
           VivifyAll(muted_users,
                     {user \in distro_list :
                         /\ forward.f.kind # "direct"
                         /\ forward.f.group \in DictGet(user_groups, user)})
    /\ UNCHANGED <<link, tables, medium, handlers, engine, runner, attempts,
                   settings, distro_list, kv_users, db_messages, last>>

\* a worker of the pool runs self.send(user, message), which returns or
\* raises; the future keeps the outcome
worker(user) ==
    /\ Alive
    /\ user \in DOMAIN futures
    /\ futures[user] = "PENDING"
    /\ \E outcome \in {"returned", "raised"} :
           futures' = [futures EXCEPT ![user] = outcome]
    /\ attempts' = [attempts EXCEPT ![user] = @ + 1]
    /\ UNCHANGED <<link, tables, medium, handlers, engine, runner, forward,
                   settings, registry, kv_users, db_messages, last>>

\* mutant: the wait is over with the first future done
AllDone_FirstCompleted ==
    futures = <<>> \/ \E user \in DOMAIN futures : futures[user] # "PENDING"

\* concurrent.futures.wait(futures) returns when no future is pending
AllDone == \A user \in DOMAIN futures : futures[user] # "PENDING"

wait ==
    /\ Alive
    /\ forward.pc = "wait"
    /\ AllDone
    /\ forward' = [forward EXCEPT !.pc = "insert"]
    /\ UNCHANGED <<link, tables, medium, handlers, engine, runner, futures,
                   attempts, settings, registry, kv_users, db_messages, last>>

\* with self.db_lock
Lock(thread) == db_lock' = thread

\* insert_message enters: with self.db_lock, then self.db_conn.cursor(),
\* which raises on a closed connection
insert_enter ==
    /\ Alive
    /\ forward.pc = "insert"
    /\ db_lock = "free"
    /\ IF db_conn = "closed"
       THEN /\ forward' = [forward EXCEPT !.pc = "ProgrammingError"]
            /\ UNCHANGED <<db_lock, using>>
       ELSE /\ forward' = [forward EXCEPT !.pc = "inserting"]
            /\ Lock("link")
            /\ using' = using \cup {"link"}
    /\ UNCHANGED <<link, tables, medium, handlers, db_conn, runner, futures,
                   attempts, settings, registry, kv_users, db_messages, last>>

\* insert_message executes INSERT INTO messages, commits and leaves
insert_message ==
    /\ Alive
    /\ forward.pc = "inserting"
    /\ IF db_conn = "closed"
       THEN /\ forward' = [forward EXCEPT !.pc = "ProgrammingError"]
            /\ UNCHANGED db_messages
       ELSE /\ forward' = [forward EXCEPT !.pc = "done"]
            /\ db_messages' = Append(db_messages, RowOf(forward.f))
    /\ db_lock' = "free"
    /\ using' = using \ {"link"}
    /\ UNCHANGED <<link, tables, medium, handlers, db_conn, runner, futures,
                   attempts, settings, registry, kv_users, last>>

\* the forwards of the fan-out runs: one of each kind
SendForwards ==
    { [kind |-> "direct", sender |-> <<"N">>, group |-> <<>>,
       message |-> <<"x">>],
      [kind |-> "group", sender |-> <<"N">>, group |-> gA,
       message |-> <<"x">>],
      [kind |-> "urgent", sender |-> <<"N">>, group |-> gB,
       message |-> <<"x">>] }

\* a forward_* call has just been made on a bot started on a stored
\* registry
InitSend ==
    /\ InitLinkUp
    /\ InitTables
    /\ InitEngine
    /\ InitRunner
    /\ InitMedium
    /\ InitHandlers
    /\ \E f \in SendForwards : forward = Call("called", f, "running")
    /\ futures = <<>>
    /\ attempts = [u \in Users |-> 0]
    /\ cfg = FanoutConfig
    /\ js8groups = CatalogOf(cfg.js8groups)
    /\ js8urgent = CatalogOf(cfg.js8urgent)
    /\ kv_users \in {JSONSet(d) : d \in StoredUsers}
    /\ distro_list = LoadedRegistry.distro
    /\ user_groups = LoadedRegistry.groups
    /\ muted_users = LoadedRegistry.muted
    /\ db_messages = <<>>
    /\ last = Done("load", "", <<>>, NoReply, FALSE)

NextSend ==
    \/ submit
    \/ \E user \in Users : worker(user)
    \/ wait
    \/ insert_enter
    \/ insert_message

SpecSend == InitSend /\ [][NextSend]_vars

(***************************************************************************)
(* Shutdown: the finally clause of run on the main thread, while the link  *)
(* thread, a daemon thread nobody stops, and a threaded command handler    *)
(* go on until the process exits.                                          *)
(***************************************************************************)
\* the for loop hands its next line, a frame with a forward to make, to
\* handle_js8call_message, which calls forward_*
call_forward ==
    /\ Alive
    /\ InLoop
    /\ forward.pc = "idle"
    /\ LET line == messages[Len(handled) + 1]
       IN /\ IsFrame(line)
          /\ Forwards(line.data) # <<>>
          /\ forward' = Call("called", Forwards(line.data)[1], run_pc)
    /\ attempts' = [u \in Users |-> 0]
    /\ UNCHANGED <<link, futures, tables, medium, handlers, engine, runner,
                   settings, registry, kv_users, db_messages, last>>

\* forward_* returns or raises: what it raises is neither KeyError nor
\* ValueError and ends the for loop
forward_returns ==
    /\ Alive
    /\ InLoop
    /\ forward.pc \in {"done", "RuntimeError", "ProgrammingError"}
    /\ LET line == messages[Len(handled) + 1]
           exc == IF forward.pc = "done" THEN "" ELSE forward.pc
           fwd == <<[kind |-> forward.f.kind, sender |-> forward.f.sender,
                     group |-> forward.f.group,
                     message |-> forward.f.message,
                     sent |-> DOMAIN futures]>>
       IN /\ handled' =
                 Append(handled,
                        [line |-> line, raised |-> exc, fwd |-> fwd,
                         stored |-> IF exc = "" THEN <<RowOf(forward.f)>>
                                    ELSE <<>>])
          /\ last' = [op |-> "frame", user |-> "", args |-> <<>>,
                      reply |-> NoReply, mutated |-> FALSE,
                      data |-> line.data, fwd |-> fwd]
          /\ js8call_connected' = ~Escapes(exc)
    /\ forward' = Call("idle", NoForward, "")
    /\ futures' = <<>>
    /\ UNCHANGED <<js8call_socket, peer, messages, attempts, tables, medium,
                   handlers, engine, runner, settings, registry, kv_users,
                   db_messages>>

\* super().run() returns or is interrupted: the finally clause begins
run_ends ==
    /\ run_pc = "running"
    /\ run_pc' = "close socket"
    /\ UNCHANGED <<thread_pool, link, pool, tables, medium, handlers, engine,
                   settings, registry, kv_users, db_messages, last>>

\* if self.js8call_socket: self.js8call_socket.close()
close_socket ==
    /\ run_pc = "close socket"
    /\ run_pc' = "storage cleanup"
    /\ js8call_socket' = IF js8call_socket = "open" THEN "closed"
                         ELSE js8call_socket
    /\ UNCHANGED <<js8call_connected, peer, messages, handled, thread_pool,
                   pool, tables, medium, handlers, engine, settings, registry,
                   kv_users, db_messages, last>>

\* self.storage.cleanup() on the storage of the runtime, which is not the
\* SQLite engine
storage_cleanup ==
    /\ run_pc = "storage cleanup"
    /\ ~UsersInDb(cfg)
    /\ run_pc' = "db cleanup"
    /\ UNCHANGED <<thread_pool, link, pool, tables, medium, handlers, engine,
                   settings, registry, kv_users, db_messages, last>>

\* run is at a cleanup call on the SQLite engine
AtCleanup ==
    \/ run_pc = "storage cleanup" /\ UsersInDb(cfg)
    \/ run_pc = "db cleanup"

\* SQLiteStorage.cleanup enters self.db_conn.close(); no with self.db_lock
cleanup_enter ==
    /\ AtCleanup
    /\ "main" \notin using
    /\ using' = using \cup {"main"}
    /\ UNCHANGED <<db_conn, db_lock, runner, link, pool, tables, medium,
                   handlers, settings, registry, kv_users, db_messages, last>>

\* the connection is closed, cleanup returns
cleanup ==
    /\ AtCleanup
    /\ "main" \in using
    /\ db_conn' = "closed"
    /\ using' = using \ {"main"}
    /\ run_pc' = IF run_pc = "storage cleanup" THEN "db cleanup"
                 ELSE "pool shutdown"
    /\ UNCHANGED <<db_lock, thread_pool, link, pool, tables, medium, handlers,
                   settings, registry, kv_users, db_messages, last>>

\* self.thread_pool.shutdown(wait=False)
pool_shutdown ==
    /\ run_pc = "pool shutdown"
    /\ thread_pool' = "shutdown"
    /\ run_pc' = "return"
    /\ UNCHANGED <<link, pool, tables, medium, handlers, engine, settings,
                   registry, kv_users, db_messages, last>>

\* run returns to main and the process, with its daemon thread, exits:
\* nothing runs any more
run_returns ==
    /\ run_pc = "return"
    /\ run_pc' = "returned"
    /\ UNCHANGED <<thread_pool, link, pool, tables, medium, handlers, engine,
                   settings, registry, kv_users, db_messages, last>>

\* a threaded command handler in SQLiteStorage.get, exists or scan: with
\* self.db_lock, a cursor on the connection, a SELECT
select_enter ==
    /\ Alive
    /\ db_lock = "free"
    /\ db_conn = "open"
    /\ Lock("command")
    /\ using' = using \cup {"command"}
    /\ UNCHANGED <<db_conn, runner, link, pool, tables, medium, handlers,
                   settings, registry, kv_users, db_messages, last>>

select ==
    /\ Alive
    /\ db_lock = "command"
    /\ db_lock' = "free"
    /\ using' = using \ {"command"}
    /\ UNCHANGED <<db_conn, runner, link, pool, tables, medium, handlers,
                   settings, registry, kv_users, db_messages, last>>

\* the lines of the shutdown runs: frames with a forward to make
ShutdownLines ==
    { FrameLine(Directed(<<"N", ":", "A", " ", "x">>)),
      FrameLine(Directed(<<"M", ":", "x">>)) }

InitShutdown ==
    /\ InitLink
    /\ InitPool
    /\ InitTables
    /\ InitEngine
    /\ InitRunner
    /\ InitMedium
    /\ InitHandlers
    /\ cfg \in {FanoutConfig, Config(<<"A">>, <<"B">>, <<>>, "yes")}
    /\ js8groups = CatalogOf(cfg.js8groups)
    /\ js8urgent = CatalogOf(cfg.js8urgent)
    /\ kv_users = JSONSet(LinkUsers)
    /\ distro_list = LoadedRegistry.distro
    /\ user_groups = LoadedRegistry.groups
    /\ muted_users = LoadedRegistry.muted
    /\ db_messages = <<>>
    /\ last = Done("load", "", <<>>, NoReply, FALSE)

NextShutdown ==
    \/ connect_js8call
    \/ recv(Batches(ShutdownLines))
    \/ call_forward
    \/ submit
    \/ \E user \in Users : worker(user)
    \/ wait
    \/ insert_enter
    \/ insert_message
    \/ forward_returns
    \/ sleep
    \/ run_ends
    \/ close_socket
    \/ storage_cleanup
    \/ cleanup_enter
    \/ cleanup
    \/ pool_shutdown
    \/ run_returns
    \/ select_enter
    \/ select

SpecShutdown == InitShutdown /\ [][NextShutdown]_vars

(***************************************************************************)
(* The showlog command and the recent-log view.                            *)
(***************************************************************************)
\* what showlog asks for when it is given no argument
DefaultCount == 10

\* the second argument of min in show_log
HardMaximum == 50

Digits == <<"0", "1", "2", "3", "4", "5", "6", "7", "8", "9">>

DigitOf(c) == CHOOSE d \in 0..9 : Digits[d + 1] = c

IsDigits(s) ==
    /\ s # <<>>
    /\ \A i \in DOMAIN s : \E d \in DOMAIN Digits : Digits[d] = s[i]

RECURSIVE Decimal(_)
Decimal(s) ==
    IF s = <<>> THEN 0
    ELSE Decimal(SubSeq(s, 1, Len(s) - 1)) * 10 + DigitOf(s[Len(s)])

\* int(s) of a str: surrounding whitespace, one optional sign, decimal
\* digits; anything else raises ValueError
int(s) ==
    LET t == strip(s)
        signed == t # <<>> /\ Head(t) \in {"+", "-"}
        digits == IF signed THEN Tail(t) ELSE t
    IN IF ~IsDigits(digits) THEN [raised |-> "ValueError", value |-> 0]
       ELSE [raised |-> "",
             value |-> IF signed /\ Head(t) = "-" THEN 0 - Decimal(digits)
                       ELSE Decimal(digits)]

min(a, b) == IF a <= b THEN a ELSE b

RECURSIVE reversed(_)
reversed(s) ==
    IF s = <<>> THEN <<>> ELSE Append(reversed(Tail(s)), Head(s))

\* the statement of show_log on the three tables: UNION ALL, ORDER BY
\* timestamp DESC, LIMIT ?.  A row's timestamp is the time of its insert,
\* so the rows of a table are in timestamp order; a negative LIMIT is no
\* limit to SQLite.
RecentLog(limit) ==
    LET rows == reversed(db_messages \o db_groups \o db_urgent)
    IN IF limit < 0 THEN rows
       ELSE SubSeq(rows, 1, min(limit, Len(rows)))

\* the query helper: runs the statement with its parameters and returns
\* every row of the result
execute_db_query(limit) == RecentLog(limit)

\* showlog replied without calling show_log
NoView == [limit |-> 0, count |-> 0, log |-> <<>>]

\* show_log: the clamp, the query, the rows oldest-first under a header
\* that counts them
show_log(num_messages) ==
    LET limit == min(num_messages, HardMaximum)
        rows == execute_db_query(limit)
    IN [limit |-> limit, count |-> Len(rows), log |-> reversed(rows)]

\* the showlog command: int(ctx.args[0]) if ctx.args else 10, show_log,
\* and the usage reply on ValueError
showlog(user, args) ==
    LET n == IF args = <<>> THEN [raised |-> "", value |-> DefaultCount]
             ELSE int(args[1])
    IN /\ last' =
              IF n.raised # ""
              THEN [op |-> "showlog", user |-> user, args |-> args,
                    reply |-> Reply("Usage: /showlog <number>", <<>>),
                    mutated |-> FALSE, data |-> NoFrame, fwd |-> <<>>,
                    asked |-> n, view |-> NoView]
              ELSE [op |-> "showlog", user |-> user, args |-> args,
                    reply |-> Reply("Last messages:", <<>>),
                    mutated |-> FALSE, data |-> NoFrame, fwd |-> <<>>,
                    asked |-> n, view |-> show_log(n.value)]
       /\ UNCHANGED <<threads, cfg, js8groups, js8urgent, distro_list,
                      user_groups, muted_users, kv_users, db_messages>>

\* the counts users type after showlog
CountTexts ==
    { <<"1", "0", "0", "0">>, <<"5", "1">>, <<"5", "0">>, <<"3">>, <<"0">>,
      <<"-", "1">>, <<"-", "5", "1">>, <<"+", "2">>, <<" ", "7">>, <<"x">>,
      <<>> }

LogArgs == {<<>>} \cup {<<text>> : text \in CountTexts}

\* a direct message the link thread stored in an earlier run
StoredRow ==
    [sender |-> <<"N">>, receiver |-> DIRECT, message |-> <<"x">>]

\* the bot started on a database file that holds the direct messages of
\* earlier runs
InitLog ==
    /\ InitThreads
    /\ cfg = FanoutConfig
    /\ js8groups = CatalogOf(cfg.js8groups)
    /\ js8urgent = CatalogOf(cfg.js8urgent)
    /\ distro_list = {}
    /\ user_groups = EmptyDict
    /\ muted_users = EmptyDict
    /\ kv_users = NoValue
    /\ \E k \in 0..MaxRows : db_messages = [i \in 1..k |-> StoredRow]
    /\ last = Done("load", "", <<>>, NoReply, FALSE)

NextLog == \E user \in Users, args \in LogArgs : showlog(user, args)

SpecLog == InitLog /\ [][NextLog]_vars

(***************************************************************************)
(* Commands on a storage whose writes may fail.                            *)
(***************************************************************************)
\* the medium fills up
DiskChanges ==
    /\ disk = "ok"
    /\ disk' = "full"
    /\ UNCHANGED <<cfg, js8groups, js8urgent, registry, kv_users,
                   db_messages, last, link, pool, tables, engine, runner,
                   handlers>>

NextFault ==
    \/ \E user \in Users : add_to_distro_list(user)
    \/ \E user \in Users : remove_from_distro_list(user)
    \/ \E user \in Users, groups \in ArgLists : add_user_to_groups(user, groups)
    \/ \E user \in Users, group \in ArgNames : remove_user_from_group(user, group)
    \/ \E user \in Users, groups \in ArgLists : mute_user_groups(user, groups)
    \/ \E user \in Users, groups \in ArgLists : unmute_user_groups(user, groups)
    \/ DiskChanges

\* the bot constructed on an empty storage
InitFault == InitWith({Config(<<"A">>, <<>>, <<>>, "no")})

SpecFault == InitFault /\ [][NextFault]_vars

(***************************************************************************)
(* The join command on a stored registry.                                  *)
(***************************************************************************)
\* the names users ask to join: ordinary, urgent, in no catalog
JoinNames == {gA, gB, <<"x">>}

JoinLists == UNION {[1..n -> JoinNames] : n \in 1..MaxJoin}

NextJoin ==
    \E user \in Users, groups \in JoinLists : add_user_to_groups(user, groups)

SpecJoin == InitFanout /\ [][NextJoin]_vars

(***************************************************************************)
(* The registry commands under a configuration whose default group is in   *)
(* no catalog.                                                             *)
(***************************************************************************)
NamesConfig == Config(<<"A">>, <<"B">>, <<"x">>, "no")

InitNames == InitWith({NamesConfig})

NextNames ==
    \/ \E user \in Users : add_to_distro_list(user)
    \/ \E user \in Users : remove_from_distro_list(user)
    \/ \E user \in Users, groups \in ArgLists : add_user_to_groups(user, groups)
    \/ \E user \in Users, group \in ArgNames : remove_user_from_group(user, group)
    \/ \E user \in Users, groups \in ArgLists : mute_user_groups(user, groups)
    \/ \E user \in Users, groups \in ArgLists : unmute_user_groups(user, groups)
    \/ Restart

SpecNames == InitNames /\ [][NextNames]_vars

(***************************************************************************)
(* Handlers and the fan-out statement by statement: a command on the       *)
(* dispatch loop, a threaded command and the link thread, each between     *)
(* two statements where the interpreter may switch threads.                *)
(***************************************************************************)
\* iter(self.distro_list): the set iterator remembers the size of the set
iter(S) == [used |-> Cardinality(S), seen |-> {}]

NoIter == [used |-> 0, seen |-> {}]

\* next() on the iterator raises RuntimeError("Set changed size during
\* iteration") when the size is not the one remembered
IterRaises(it) == Cardinality(distro_list) # it.used

\* the members next() may still return
IterRest(it) == distro_list \ it.seen

\* the commands registered on each thread
Commands(t) ==
    IF t = "dispatch" THEN {"add", "remove"}
    ELSE IF t = "threaded" THEN {"mute", "unmute"}
    ELSE {}

CommandThreads == {t \in RegistryThreads : Commands(t) # {}}

Handling(pc, op, user, args) ==
    [pc |-> pc, op |-> op, user |-> user, args |-> args, it |-> NoIter,
     users_data |-> EmptyDict, reply |-> NoReply, saved |-> ""]

\* the runtime calls the handler of a command
begin(t, op, user, args) ==
    /\ calls[t].pc = "idle"
    /\ op \in Commands(t)
    /\ calls' = [calls EXCEPT ![t] = Handling("test", op, user, args)]
    /\ UNCHANGED <<link, pool, tables, medium, engine, runner, settings,
                   registry, kv_users, db_messages, last>>

\* the membership test every operation begins with
test(t) ==
    /\ calls[t].pc = "test"
    /\ LET c == calls[t]
           taken == IF c.op = "add" THEN c.user \notin distro_list
                    ELSE c.user \in distro_list
           prompt == IF c.op = "add"
                     THEN "You are already in the JS8Call message group."
                     ELSE IF c.op = "remove"
                     THEN "You are not in the JS8Call message group."
                     ELSE "You need to join the JS8Call message group first. Use /add command."
       IN calls' = [calls EXCEPT ![t] =
                       IF taken THEN [c EXCEPT !.pc = c.op]
                       ELSE [c EXCEPT !.pc = "returned",
                                      !.reply = Reply(prompt, <<>>)]]
    /\ UNCHANGED <<link, pool, tables, medium, engine, runner, settings,
                   registry, kv_users, db_messages, last>>

\* add_to_distro_list: self.distro_list.add(user) and the default groups
add(t) ==
    /\ calls[t].pc = "add"
    /\ LET c == calls[t]
       IN /\ distro_list' = distro_list \cup {c.user}
          /\ user_groups' =
                 IF default_groups = <<>> THEN user_groups
                 ELSE DictPut(user_groups, c.user,
                              DictGet(user_groups, c.user)
                                  \cup set(default_groups))
          /\ calls' = [calls EXCEPT ![t] =
                 [c EXCEPT !.pc = "save",
                           !.reply = Reply("You have been added to the JS8Call message group",
                                           default_groups)]]
    /\ UNCHANGED <<link, pool, tables, medium, engine, runner, settings,
                   muted_users, kv_users, db_messages, last>>

\* remove_from_distro_list: self.distro_list.remove(user)
remove(t) ==
    /\ calls[t].pc = "remove"
    /\ distro_list' = distro_list \ {calls[t].user}
    /\ calls' = [calls EXCEPT ![t].pc = "pop groups"]
    /\ UNCHANGED <<link, pool, tables, medium, engine, runner, settings,
                   user_groups, muted_users, kv_users, db_messages, last>>

\* self.user_groups.pop(user, None)
pop_groups(t) ==
    /\ calls[t].pc = "pop groups"
    /\ user_groups' = DictPop(user_groups, calls[t].user)
    /\ calls' = [calls EXCEPT ![t].pc = "pop muted"]
    /\ UNCHANGED <<link, pool, tables, medium, engine, runner, settings,
                   distro_list, muted_users, kv_users, db_messages, last>>

\* self.muted_users.pop(user, None)
pop_muted(t) ==
    /\ calls[t].pc = "pop muted"
    /\ muted_users' = DictPop(muted_users, calls[t].user)
    /\ calls' = [calls EXCEPT ![t] =
           [@ EXCEPT !.pc = "save",
                     !.reply = Reply("You have been removed from the JS8Call message group and all groups.",
                                     <<>>)]]
    /\ UNCHANGED <<link, pool, tables, medium, engine, runner, settings,
                   distro_list, user_groups, kv_users, db_messages, last>>

\* mute_user_groups after its test: update(all_groups), or the loop that
\* adds the groups of a catalog, and the reply
mute(t) ==
    /\ calls[t].pc = "mute"
    /\ LET c == calls[t]
           muted == SelectSeq(c.args, InCatalog)
       IN /\ muted_users' =
                 IF HasAll(c.args)
                 THEN DictPut(muted_users, c.user,
                              DictGet(muted_users, c.user)
                                  \cup available_groups)
                 ELSE IF muted = <<>> THEN muted_users
                 ELSE DictPut(muted_users, c.user,
                              DictGet(muted_users, c.user) \cup set(muted))
          /\ calls' = [calls EXCEPT ![t] =
                 [c EXCEPT !.pc = "save",
                           !.reply =
                               IF HasAll(c.args)
                               THEN Reply("You have muted all available groups.",
                                          <<>>)
                               ELSE IF muted # <<>>
                               THEN Reply("You have muted the following groups",
                                          muted)
                               ELSE Reply("No valid groups to mute.", <<>>)]]
    /\ UNCHANGED <<link, pool, tables, medium, engine, runner, settings,
                   distro_list, user_groups, kv_users, db_messages, last>>

\* unmute_user_groups after its test: clear(), or the loop that removes
\* the groups found in self.muted_users[user], and the reply
unmute(t) ==
    /\ calls[t].pc = "unmute"
    /\ LET c == calls[t]
           unmuted == UnmutedList(c.args, DictGet(muted_users, c.user))
       IN /\ muted_users' =
                 IF HasAll(c.args) THEN DictPut(muted_users, c.user, {})
                 ELSE DictPut(muted_users, c.user,
                              DictGet(muted_users, c.user) \ set(unmuted))
          /\ calls' = [calls EXCEPT ![t] =
                 [c EXCEPT !.pc = "save",
                           !.reply =
                               IF HasAll(c.args)
                               THEN Reply("You have unmuted all groups.", <<>>)
                               ELSE IF unmuted # <<>>
                               THEN Reply("You have unmuted the following groups",
                                          unmuted)
                               ELSE Reply("No valid groups to unmute or they were not muted.",
                                          <<>>)]]
    /\ UNCHANGED <<link, pool, tables, medium, engine, runner, settings,
                   distro_list, user_groups, kv_users, db_messages, last>>

\* save_state_to_storage: users_data = {} and the for statement creates
\* the iterator
save(t) ==
    /\ calls[t].pc = "save"
    /\ calls' = [calls EXCEPT ![t] =
           [@ EXCEPT !.pc = "build", !.it = iter(distro_list),
                     !.users_data = EmptyDict]]
    /\ UNCHANGED <<link, pool, tables, medium, engine, runner, settings,
                   registry, kv_users, db_messages, last>>

\* one turn of the for loop: next() raises, which the except clause logs,
\* or ends the loop, or gives a user whose entry is built
build(t) ==
    /\ calls[t].pc = "build"
    /\ LET c == calls[t]
       IN IF IterRaises(c.it)
          THEN /\ calls' = [calls EXCEPT ![t] =
                      [c EXCEPT !.pc = "returned", !.saved = "skipped"]]
               /\ UNCHANGED <<user_groups, muted_users>>
          ELSE IF IterRest(c.it) = {}
          THEN /\ calls' = [calls EXCEPT ![t].pc = "set"]
               /\ UNCHANGED <<user_groups, muted_users>>
          ELSE \E user \in IterRest(c.it) :
                  /\ calls' = [calls EXCEPT ![t] =
                         [c EXCEPT !.it.seen = @ \cup {user},
                                   !.users_data =
                                       DictPut(@, user,
                                           UsersData({user}, user_groups,
                                                     muted_users)[user])]]
                  /\ user_groups' = Vivify(user_groups, user)
                  /\ muted_users' = Vivify(muted_users, user)
    /\ UNCHANGED <<link, pool, tables, medium, engine, runner, settings,
                   distro_list, kv_users, db_messages, last>>

\* self.storage.set("users", users_data)
storage_write(t) ==
    /\ calls[t].pc = "set"
    /\ kv_users' = IF WriteFails THEN kv_users
                   ELSE storage_set(calls[t].users_data)
    /\ calls' = [calls EXCEPT ![t] =
           [@ EXCEPT !.pc = "returned",
                     !.saved = IF WriteFails THEN "failed" ELSE "set"]]
    /\ UNCHANGED <<link, pool, tables, medium, engine, runner, settings,
                   registry, db_messages, last>>

\* _send_to_users: the list comprehension creates its iterator
iterate ==
    /\ Alive
    /\ forward.pc = "called"
    /\ forward' = [forward EXCEPT !.pc = "iterating"]
    /\ futures' = <<>>
    /\ calls' = [calls EXCEPT !["link"] =
           [pc |-> "iterating", it |-> iter(distro_list)]]
    /\ UNCHANGED <<link, tables, medium, engine, runner, attempts, settings,
                   registry, kv_users, db_messages, last>>

\* one turn of the comprehension: next() raises, or ends it, or gives a
\* user for whom the condition is evaluated and a send submitted
next_user ==
    /\ Alive
    /\ forward.pc = "iterating"
    /\ LET it == calls["link"].it
       IN IF IterRaises(it)
          THEN /\ forward' = [forward EXCEPT !.pc = "RuntimeError"]
               /\ calls' = [calls EXCEPT !["link"] = Idle]
               /\ UNCHANGED <<futures, user_groups, muted_users>>
          ELSE IF IterRest(it) = {}
          THEN /\ forward' = [forward EXCEPT !.pc = "wait"]
               /\ calls' = [calls EXCEPT !["link"] = Idle]
               /\ UNCHANGED <<futures, user_groups, muted_users>>
          ELSE \E user \in IterRest(it) :
                  /\ calls' = [calls EXCEPT !["link"].it.seen = @ \cup {user}]
                  /\ futures' =
                         IF Eligible(forward.f, user)
                         THEN [u \in DOMAIN futures \cup {user} |->
                                  IF u = user THEN "PENDING" ELSE futures[u]]
                         ELSE futures
                  /\ user_groups' =
                         IF forward.f.kind = "direct" THEN user_groups
                         ELSE Vivify(user_groups, user)
                  /\ muted_users' =
                         IF /\ forward.f.kind # "direct"
                            /\ forward.f.group \in DictGet(user_groups, user)
                         THEN Vivify(muted_users, user)
                         ELSE muted_users
                  /\ UNCHANGED forward
    /\ UNCHANGED <<link, tables, medium, engine, runner, attempts, settings,
                   distro_list, kv_users, db_messages, last>>

\* the registries of the runs with concurrent handlers
RaceStored ==
    { LinkUsers,
      [u \in {"u1"} |-> [groups |-> <<gA>>, muted_groups |-> <<>>]] }

\* the lines of those runs: a group message and a direct message
RaceLines ==
    { FrameLine(Directed(<<"N", ":", "A", " ", "x">>)),
      FrameLine(Directed(<<"M", ":", "x">>)) }

\* the bot started on a stored registry, no command being handled, the
\* link thread at the first line of a batch just read
InitRace ==
    /\ js8call_connected = TRUE
    /\ js8call_socket = "open"
    /\ peer = "accepting"
    /\ \E line \in RaceLines : messages = <<line>>
    /\ handled = <<>>
    /\ InitPool
    /\ InitTables
    /\ InitEngine
    /\ InitRunner
    /\ InitMedium
    /\ InitHandlers
    /\ cfg = FanoutConfig
    /\ js8groups = CatalogOf(cfg.js8groups)
    /\ js8urgent = CatalogOf(cfg.js8urgent)
    /\ kv_users \in {JSONSet(d) : d \in RaceStored}
    /\ distro_list = LoadedRegistry.distro
    /\ user_groups = LoadedRegistry.groups
    /\ muted_users = LoadedRegistry.muted
    /\ db_messages = <<>>
    /\ last = Done("load", "", <<>>, NoReply, FALSE)

NextRace ==
    \/ \E user \in Users : begin("dispatch", "add", user, <<>>)
    \/ \E user \in Users : begin("dispatch", "remove", user, <<>>)
    \/ \E user \in Users, groups \in ArgLists :
           begin("threaded", "mute", user, groups)
    \/ \E user \in Users, groups \in ArgLists :
           begin("threaded", "unmute", user, groups)
    \/ \E t \in CommandThreads : test(t)
    \/ \E t \in CommandThreads : add(t)
    \/ \E t \in CommandThreads : remove(t)
    \/ \E t \in CommandThreads : pop_groups(t)
    \/ \E t \in CommandThreads : pop_muted(t)
    \/ \E t \in CommandThreads : mute(t)
    \/ \E t \in CommandThreads : unmute(t)
    \/ \E t \in CommandThreads : save(t)
    \/ \E t \in CommandThreads : build(t)
    \/ \E t \in CommandThreads : storage_write(t)
    \/ call_forward
    \/ iterate
    \/ next_user
    \/ \E user \in Users : worker(user)
    \/ wait
    \/ insert_enter
    \/ insert_message
    \/ forward_returns

SpecRace == InitRace /\ [][NextRace]_vars

(***************************************************************************)
(* Properties.                                                             *)
(***************************************************************************)
\* the operation performed last handled an RX.DIRECTED frame that parsed
\* into sender and content and was not blocked
HandledDirected ==
    /\ last.op = "frame"
    /\ last.data.type = "RX.DIRECTED"
    /\ Len(split(last.data.value, ":")) >= 2
    /\ ~Blocked(ContentOf(last.data.value))

\* C1: a frame classified as a message to group G (ordinary or urgent) is
\* submitted to exactly the users of the distribution list who have G among
\* their groups and not among their muted groups, and to nobody else.
C1_GroupFanoutExact ==
    last.op = "frame" =>
        \A i \in DOMAIN last.fwd :
            last.fwd[i].kind \in {"group", "urgent"} =>
                last.fwd[i].sent =
                    {u \in Users :
                        /\ u \in distro_list
                        /\ u \in DOMAIN user_groups
                        /\ last.fwd[i].group \in user_groups[u]
                        /\ ~(/\ u \in DOMAIN muted_users
                             /\ last.fwd[i].group \in muted_users[u])}

C1_Witness ==
    /\ last.op = "frame"
    /\ Len(last.fwd) = 1
    /\ last.fwd[1].kind = "urgent"
    /\ last.fwd[1].group = gB
    /\ last.fwd[1].sent = {"u1"}
    /\ "u2" \in distro_list
    /\ gB \in user_groups["u2"]
    /\ gB \in muted_users["u2"]

\* C2: in every state reached by commands and fan-outs, from an empty or a
\* loaded registry, a user who is not in the distribution list has no entry
\* in the groups mapping and none in the muted-groups mapping: no look-up
\* creates one.
C2_RegistryConsistent ==
    \A u \in Users \ distro_list :
        /\ u \notin DOMAIN user_groups
        /\ u \notin DOMAIN muted_users

C2_Witness ==
    /\ last.op = "leave"
    /\ last.user \notin distro_list
    /\ distro_list # {}
    /\ Len(db_messages) > 0

\* C3: add for a user who is not listed lists the user, gives exactly the
\* default groups and no muted group, replies the welcome and persists a
\* snapshot holding the user; add for a listed user replies "already in"
\* and changes neither the distribution list, nor the two mappings, nor the
\* stored blob.
C3_JoinIdempotent ==
    [][last'.op = "add" =>
         LET u == last'.user
         IN IF u \in distro_list
            THEN /\ last'.reply.text
                        = "You are already in the JS8Call message group."
                 /\ UNCHANGED <<distro_list, user_groups, muted_users,
                                kv_users>>
            ELSE /\ distro_list' = distro_list \cup {u}
                 /\ DictGet(user_groups', u) = set(default_groups)
                 /\ DictGet(muted_users', u) = {}
                 /\ \A v \in Users \ {u} :
                        /\ DictGet(user_groups', v) = DictGet(user_groups, v)
                        /\ DictGet(muted_users', v) = DictGet(muted_users, v)
                 /\ last'.reply.text
                        = "You have been added to the JS8Call message group"
                 /\ kv_users'.pytype # "none"
                 /\ u \in DOMAIN kv_users'.repr
                 /\ set(kv_users'.repr[u].groups) = set(default_groups)
    ]_vars

C3_Witness ==
    /\ last.op = "add"
    /\ last.reply.text = "You are already in the JS8Call message group."
    /\ default_groups # <<>>
    /\ user_groups[last.user] = {}

\* C4: after remove has removed a listed user, the user is in none of the
\* distribution list, the groups mapping and the muted-groups mapping, and
\* the snapshot stored by the operation has no entry for the user.
C4_LeaveRemovesEverywhere ==
    (/\ last.op = "remove"
     /\ last.reply.text
            = "You have been removed from the JS8Call message group and all groups.")
    => /\ last.user \notin distro_list
       /\ last.user \notin DOMAIN user_groups
       /\ last.user \notin DOMAIN muted_users
       /\ kv_users.pytype # "none"
       /\ last.user \notin DOMAIN kv_users.repr

C4_Witness ==
    /\ last.op = "remove"
    /\ last.mutated
    /\ \E v \in distro_list : muted_users[v] # {} /\ user_groups[v] # {}

\* the registry the stored blob describes equals the registry in memory
BlobMatchesRegistry ==
    /\ DOMAIN kv_users.repr = distro_list
    /\ \A u \in distro_list :
           /\ set(kv_users.repr[u].groups) = DictGet(user_groups, u)
           /\ set(kv_users.repr[u].muted_groups) = DictGet(muted_users, u)

\* C5: a registry rebuilt by load_state_from_storage equals the registry
\* the storage holds, on either storage engine.
C5_RoundTrip == last.op = "load" => BlobMatchesRegistry

AllSpellings ==
    {<<a, b, c>> : a \in {"A", "a"}, b \in {"L", "l"}, c \in {"L", "l"}}

NamesSentinel(args) == \E i \in DOMAIN args : args[i] \in AllSpellings

\* C7: after mute by a listed user with ALL, in any letter case, among the
\* arguments, every group of both catalogs is muted for the user and the
\* groups listing has a line for each of them, all marked Muted; after
\* unmute with ALL the user's muted set is empty and no line is marked.
C7_MuteAll ==
    (last.op \in {"mute", "unmute"} /\ last.user \in distro_list
        /\ NamesSentinel(last.args))
    => LET u == last.user
           listing == show_groups(u)
       IN /\ {listing[i].group : i \in DOMAIN listing}
                 = set(js8groups) \cup set(js8urgent)
          /\ last.op = "mute" =>
                 /\ set(js8groups) \cup set(js8urgent) \subseteq muted_users[u]
                 /\ \A i \in DOMAIN listing : listing[i].muted
          /\ last.op = "unmute" =>
                 /\ muted_users[u] = {}
                 /\ \A i \in DOMAIN listing : ~listing[i].muted

C7_Witness ==
    /\ last.op = "mute"
    /\ last.user \in distro_list
    /\ last.args = << <<"a", "l", "L">> >>
    /\ Cardinality(muted_users[last.user]) = 2
    /\ Len(show_groups(last.user)) = 2

\* the positions of the catalog names the content starts with
PrefixPositions(content, catalog) ==
    {i \in DOMAIN catalog : startswith(content, catalog[i])}

FirstPosition(S) == CHOOSE i \in S : \A j \in S : i <= j

\* C8: an unblocked RX.DIRECTED content that starts with an ordinary name is
\* forwarded as a group message to the first such name of the ordinary
\* catalog, without that prefix; otherwise, if it starts with an urgent
\* name, as urgent to the first such name of the urgent catalog; one frame
\* makes exactly one forward.
C8_Classification ==
    HandledDirected =>
        LET content == ContentOf(last.data.value)
            ord == PrefixPositions(content, js8groups)
            urg == PrefixPositions(content, js8urgent)
            Rest(g) == strip(SubSeq(content, Len(g) + 1, Len(content)))
        IN /\ Len(last.fwd) = 1
           /\ Len(db_messages) = 1
           /\ ord # {} =>
                  /\ last.fwd[1].kind = "group"
                  /\ last.fwd[1].group = js8groups[FirstPosition(ord)]
                  /\ last.fwd[1].message
                         = Rest(js8groups[FirstPosition(ord)])
           /\ (ord = {} /\ urg # {}) =>
                  /\ last.fwd[1].kind = "urgent"
                  /\ last.fwd[1].group = js8urgent[FirstPosition(urg)]
                  /\ last.fwd[1].message
                         = Rest(js8urgent[FirstPosition(urg)])

C8_Witness ==
    /\ HandledDirected
    /\ js8groups = <<gAB, gA>>
    /\ js8urgent = <<gA>>
    /\ last.fwd[1].kind = "group"
    /\ last.fwd[1].group = gAB
    /\ last.fwd[1].message = <<"A">>

\* the group names a catalog setting names: its non-empty entries
ConfiguredNames(raw) == {g \in set(CatalogOf(raw)) : g # <<>>}

\* C9: an unblocked RX.DIRECTED content that starts with no configured
\* ordinary or urgent group name is forwarded whole as a direct message,
\* also when a catalog is left unconfigured.
C9_DirectOtherwise ==
    HandledDirected =>
        LET content == ContentOf(last.data.value)
        IN (\A g \in ConfiguredNames(cfg.js8groups)
                        \cup ConfiguredNames(cfg.js8urgent) :
                ~startswith(content, g))
           => /\ Len(last.fwd) = 1
              /\ last.fwd[1].kind = "direct"
              /\ last.fwd[1].message = content

\* C10: a message forwarded as direct is submitted to every user of the
\* distribution list, whatever the user subscribed to or muted, and to
\* nobody else.
C10_DirectToAll ==
    last.op = "frame" =>
        \A i \in DOMAIN last.fwd :
            last.fwd[i].kind = "direct" => last.fwd[i].sent = distro_list

C10_Witness ==
    /\ last.op = "frame"
    /\ Len(last.fwd) = 1
    /\ last.fwd[1].kind = "direct"
    /\ last.fwd[1].sent = {"u1", "u2"}
    /\ muted_users["u1"] = {gA, gB}
    /\ user_groups["u2"] = {}

\* the line is an RX.DIRECTED frame whose value holds no ":"
NoColon(line) ==
    /\ IsFrame(line)
    /\ line.data.type = "RX.DIRECTED"
    /\ ~contains(line.data.value, <<":">>)

\* C11: an RX.DIRECTED frame whose value contains no ":" is dropped: no
\* send is submitted, no record is stored, the link stays connected and the
\* for loop goes on with the lines that follow.
C11_NoColonDropped ==
    \A k \in DOMAIN handled :
        NoColon(handled[k].line) =>
            /\ handled[k].fwd = <<>>
            /\ handled[k].stored = <<>>
            /\ handled[k].raised = ""
            /\ k = Len(handled) =>
                   /\ js8call_connected
                   /\ last.op = "frame" /\ last.fwd = <<>>
                   /\ Len(handled) < Len(messages) => InLoop
            /\ k < Len(messages) /\ k < Len(handled) =>
                   handled[k + 1].line = messages[k + 1]

\* a value without ":" was dropped and the frame after it was forwarded
C11_Witness ==
    /\ Len(handled) >= 2
    /\ NoColon(handled[1].line)
    /\ handled[2].fwd # <<>>
    /\ handled[2].stored # <<>>
    /\ js8call_connected

\* the line decodes to a frame handle_js8call_message has work for or
\* ignores by its type
WellFormed(line) ==
    /\ IsFrame(line)
    /\ line.data.type = "RX.DIRECTED" => contains(line.data.value, <<":">>)

\* the line decodes to an RX.DIRECTED object whose value is not the text
\* "sender:content"
MalformedValue(line) ==
    /\ line.json = "dict"
    /\ "type" \in line.keys
    /\ line.data.type = "RX.DIRECTED"
    /\ ~WellFormed(line)

BadLine(line) == line.json = "invalid" \/ MalformedValue(line)

\* C12: within the lines of one read, a line that fails JSON decoding or
\* carries a malformed directed value is skipped, and every well-formed
\* line before and after it is still handled, in the order received.
C12_BadLinesSkipped ==
    LoopOver =>
        \A k \in DOMAIN handled :
            BadLine(handled[k].line) =>
                /\ handled[k].fwd = <<>>
                /\ handled[k].stored = <<>>
                /\ ~Escapes(handled[k].raised)
                /\ \A j \in DOMAIN messages :
                       WellFormed(messages[j]) =>
                           /\ j \in DOMAIN handled
                           /\ handled[j].line = messages[j]
                           /\ messages[j].data.type = "RX.DIRECTED" =>
                                  /\ handled[j].fwd # <<>>
                                  /\ Len(handled[j].stored) = 1

\* the content holds a word of the configured list, in any case, anywhere
HoldsConfiguredWord(content) ==
    \E i \in DOMAIN cfg.blocked_words :
        contains(lower(content), lower(cfg.blocked_words[i]))

\* C13: an RX.DIRECTED frame whose content contains a word of the
\* configured blocked-word list, as a case-insensitive substring at any
\* position, is dropped: no send is submitted and no record is stored.
C13_BlockedDropped ==
    ( /\ last.op = "frame"
      /\ last.data.type = "RX.DIRECTED"
      /\ Len(split(last.data.value, ":")) >= 2
      /\ HoldsConfiguredWord(ContentOf(last.data.value)) ) =>
        last.fwd = <<>> /\ db_messages = <<>>

\* C14: the link is either disconnected or connected; it becomes connected
\* only by a successful connect, and it stops being connected only by an
\* empty read or a read that raises: handling a line that was read never
\* takes the link down, whatever its JSON shape.
C14_LinkTransitions ==
    [][ /\ js8call_connected' \in BOOLEAN
        /\ (~js8call_connected /\ js8call_connected') =>
               last'.op = "connected"
        /\ (js8call_connected /\ ~js8call_connected') =>
               last'.op \in {"recv empty", "recv error"} ]_vars

\* C15: link failures are never fatal and are always retried: after a
\* failed connect, a read error or a close by the peer the link is
\* disconnected and the loop's next turn is a connect; if from some point on
\* the peer accepts connections, the link becomes connected again and again.
C15_AlwaysRetried ==
    /\ [](last.op \in {"connect failed", "recv empty", "recv error"} =>
              ~js8call_connected /\ ~InLoop)
    /\ (<>[](peer = "accepting") => []<>js8call_connected)

\* the link is up again after a connection on which frames were forwarded
\* had been lost
C15_Witness ==
    /\ js8call_connected
    /\ last.op = "connected"
    /\ db_messages # <<>>

\* concurrent.futures.wait has returned to _send_to_users
Returned == forward.pc \in {"insert", "inserting", "done"}

\* C16: _send_to_users submits exactly one send per eligible recipient and
\* never a second one; a send that raises neither stops the others nor
\* makes the call fail; and the call returns only after every submitted
\* send has completed, with or without an exception.
C16_FanOutWaitsForAll ==
    /\ \A user \in Users : attempts[user] <= 1
    /\ \A user \in DOMAIN futures :
           user \in distro_list /\ Eligible(forward.f, user)
    /\ Returned =>
           /\ \A user \in DOMAIN futures : futures[user] # "PENDING"
           /\ \A user \in Users :
                  attempts[user] =
                      IF user \in distro_list /\ Eligible(forward.f, user)
                      THEN 1 ELSE 0
    /\ ( /\ forward.pc = "wait"
         /\ \A user \in DOMAIN futures :
                futures[user] \in {"returned", "raised"} ) => ENABLED wait

\* the call has returned and the row is in, with one send that raised and
\* one that did not
C16_Witness ==
    /\ forward.pc = "done"
    /\ db_messages # <<>>
    /\ \E u, v \in DOMAIN futures :
           futures[u] = "raised" /\ futures[v] = "returned"

\* the table that holds the records of a class of message
Stream(kind, direct, group, urgent) ==
    IF kind = "direct" THEN direct
    ELSE IF kind = "group" THEN group
    ELSE urgent

\* C17: every RX.DIRECTED message that is classified appends exactly one
\* record to the stream of its class, direct, group or urgent, with the
\* group name as destination of a group or urgent message; no stream loses
\* or changes a record it has.
C17_AppendToOwnStream ==
    [][ (last'.op = "frame" /\ last'.fwd # <<>>) =>
            LET f == last'.fwd[1]
                row == [sender |-> f.sender,
                        receiver |-> IF f.kind = "direct" THEN DIRECT
                                     ELSE f.group,
                        message |-> f.message]
            IN \A kind \in {"direct", "group", "urgent"} :
                   Stream(kind, db_messages', db_groups', db_urgent') =
                       IF kind = f.kind
                       THEN Append(Stream(kind, db_messages, db_groups,
                                          db_urgent), row)
                       ELSE Stream(kind, db_messages, db_groups, db_urgent)
      ]_vars

\* a forward_* call is between its first step and its return
InFlight == forward.pc \in {"called", "wait", "insert", "inserting"}

\* C18: once shutdown has begun no new forward is taken on; the storage
\* connection is closed only when no forward, fan-out and insert, is in
\* flight; and the link thread never attempts an insert on the closed
\* connection nor a submit to the pool that was shut down.
C18_ShutdownOrder ==
    /\ forward.pc # "idle" => forward.during = "running"
    /\ db_conn = "closed" => ~InFlight
    /\ forward.pc \notin {"RuntimeError", "ProgrammingError"}

\* C19: every operation of the storage engine, cleanup included, is inside
\* a call on the connection only while its thread holds the mutex, so at
\* most one thread uses the connection at a time.
C19_MutualExclusion ==
    /\ \A thread \in using : db_lock = thread
    /\ Cardinality(using) <= 1

\* C20: whatever integer count showlog is asked for, large, zero or
\* negative, the limit handed to the query is the count clamped to the
\* hard maximum, and the view holds at most that many entries, 50.
C20_AtMostFifty ==
    (last.op = "showlog" /\ last.asked.raised = "") =>
        /\ last.view.limit = min(last.asked.value, HardMaximum)
        /\ last.view.count <= HardMaximum
        /\ Len(last.view.log) <= HardMaximum

\* C21: a command whose write of the registry to storage fails does not
\* succeed: the failure is raised to the command, so no reply of success
\* goes to the user.
C21_WriteFailureFailsCommand ==
    [][(disk = "full" /\ disk' = disk /\ last'.mutated)
           => last'.reply = NoReply]_vars

\* C22: join by a listed user with the list R leaves the user subscribed to
\* what the user was subscribed to and to the names of R found in the
\* ordinary or the urgent catalog, changes nothing else in the registry,
\* stores the registry and echoes the whole of R; join by a user who is
\* not listed changes neither registry nor storage and replies the
\* join-first prompt.
C22_JoinAddsCatalogGroups ==
    [][last'.op = "join" =>
         LET u == last'.user
             R == last'.args
             known == {g \in set(R) : g \in set(js8groups) \cup set(js8urgent)}
         IN IF u \in distro_list
            THEN /\ DictGet(user_groups', u) = DictGet(user_groups, u) \cup known
                 /\ distro_list' = distro_list
                 /\ \A v \in Users :
                        /\ DictGet(muted_users', v) = DictGet(muted_users, v)
                        /\ v # u =>
                               DictGet(user_groups', v) = DictGet(user_groups, v)
                 /\ kv_users'.pytype # "none"
                 /\ BlobMatchesRegistry'
                 /\ last'.reply
                        = Reply("You have been added to the following groups", R)
            ELSE /\ UNCHANGED <<distro_list, user_groups, muted_users,
                                kv_users>>
                 /\ last'.reply.text
                        = "You need to join the JS8Call message group first. Use /add command."
    ]_vars

\* a listed user joined an urgent group and a name of no catalog at once
C22_Witness ==
    /\ last.op = "join"
    /\ last.user \in distro_list
    /\ last.args = <<gB, <<"x">> >>
    /\ gB \in user_groups[last.user]
    /\ gA \notin user_groups[last.user]

\* the record of the forward_* call in progress is in the messages table
Recorded ==
    \E i \in DOMAIN db_messages : db_messages[i] = RowOf(forward.f)

\* C23: the record of a forwarded message is appended to storage before
\* the message goes to the fan-out: no send is submitted, and none runs,
\* before the record exists.
C23_RecordedBeforeFanOut ==
    /\ DOMAIN futures # {} => Recorded
    /\ (\E user \in Users : attempts[user] > 0) => Recorded

GroupForward(group) ==
    [kind |-> "group", sender |-> <<"N">>, group |-> group, message |-> <<>>]

\* C28: leave changes only the subscription it names: by a listed user
\* subscribed to exactly that group it takes that one subscription away
\* and stores the registry, otherwise it changes nothing; the muted groups
\* of every user, the user's other subscriptions and the other users are as
\* before.  Joining leaves the muted groups alone too, and a muted group is
\* never delivered, so a group muted before leave is muted, and not
\* delivered, after the user has joined it again.
C28_LeaveChangesOnlySubscription ==
    /\ [][last'.op = "leave" =>
            LET u == last'.user
                g == last'.args[1]
            IN /\ IF u \in distro_list /\ g \in DictGet(user_groups, u)
                  THEN /\ DictGet(user_groups', u)
                              = DictGet(user_groups, u) \ {g}
                       /\ kv_users'.pytype # "none"
                       /\ BlobMatchesRegistry'
                  ELSE /\ DictGet(user_groups', u) = DictGet(user_groups, u)
                       /\ kv_users' = kv_users
               /\ distro_list' = distro_list
               /\ \A v \in Users :
                      /\ DictGet(muted_users', v) = DictGet(muted_users, v)
                      /\ v # u =>
                             DictGet(user_groups', v) = DictGet(user_groups, v)
        ]_vars
    /\ [][last'.op = "join" =>
            \A v \in Users :
                DictGet(muted_users', v) = DictGet(muted_users, v)]_vars
    /\ [](\A u \in Users, g \in available_groups :
              g \in DictGet(muted_users, u) => ~Eligible(GroupForward(g), u))

\* a user who mutes A and B and is subscribed to both has left A
C28_Witness ==
    /\ last.op = "leave"
    /\ last.mutated
    /\ last.args = <<gA>>
    /\ muted_users[last.user] = {gA, gB}
    /\ gB \in user_groups[last.user]
    /\ gA \notin user_groups[last.user]

\* no handler is between two of its statements
HandlersDone ==
    \A t \in CommandThreads : calls[t].pc \in {"idle", "returned"}

\* a handler took its mutating branch and returned
Mutated(t) == calls[t].pc = "returned" /\ calls[t].saved # ""

\* C24: with mute or unmute on a thread of its own beside remove on the
\* dispatch loop, once the handlers have returned a user who is not in the
\* distribution list has no group and no muted group in the mappings.
C24_ConsistentAfterRace ==
    HandlersDone =>
        \A user \in Users \ distro_list :
            /\ DictGet(user_groups, user) = {}
            /\ DictGet(muted_users, user) = {}

\* C25: when handlers that change the registry have run side by side and
\* have returned, none of them has skipped its write and the value stored
\* under "users" describes the registry as it is in memory.
C25_BlobIsFinalRegistry ==
    (HandlersDone /\ \E t \in CommandThreads : Mutated(t)) =>
        /\ \A t \in CommandThreads : Mutated(t) => calls[t].saved = "set"
        /\ BlobMatchesRegistry

\* no command being handled is about the user
Untouched(user) ==
    \A t \in CommandThreads : calls[t].pc = "idle" \/ calls[t].user # user

\* C26: a fan-out on the link thread beside a command that adds or removes
\* a user raises nothing: every user eligible from beginning to end has a
\* send submitted, the message is recorded and the link stays connected.
C26_FanOutBesideCommands ==
    /\ forward.pc # "RuntimeError"
    /\ js8call_connected
    /\ forward.pc \in {"wait", "insert", "inserting", "done"} =>
           \A user \in distro_list :
               (Untouched(user) /\ Eligible(forward.f, user))
                   => user \in DOMAIN futures
    /\ handled # <<>> => handled[1].stored # <<>>

====
